---------------------------- MODULE Spec2Model ----------------------------
(***************************************************************************)
(* A model of crypto-ifttt-alerts.py: one run of check_xbt fetches the XBT *)
(* price, reads the previous price from xbt-previous-price.txt, parses the *)
(* rules of xbt-rules.txt and, at the first rule that matches while the    *)
(* price is a safe distance from the previous one, saves the price and     *)
(* posts the IFTTT webhook.                                                *)
(*                                                                         *)
(* Text is a sequence of one-character strings.  Prices are whole numbers  *)
(* of euros (Python floats with a zero fraction).                          *)
(***************************************************************************)
EXTENDS Integers, Sequences, FiniteSets

\* ------------------------------------------------------------------ bounds

\* Runs of check_xbt started in one behaviour.
MaxRuns == 3

\* Lines of the rules file.
MaxLines == 2

\* Prices the ticker may answer with.
Prices == {90, 100, 350, 351, 1000}

\* The price in xbt-previous-price.txt before the first run.
InitialPrevious == {100}

\* ------------------------------------------------------------------ text

DigitChars == <<"0", "1", "2", "3", "4", "5", "6", "7", "8", "9">>

IsDigit(c) == \E i \in 1..10 : DigitChars[i] = c

DigitVal(c) == (CHOOSE i \in 1..10 : DigitChars[i] = c) - 1

\* Characters str.strip() removes.
Whitespace == {" ", "\n"}

RECURSIVE lstrip(_)
lstrip(s) ==
    IF s # <<>> /\ Head(s) \in Whitespace THEN lstrip(Tail(s)) ELSE s

RECURSIVE rstrip(_)
rstrip(s) ==
    IF s # <<>> /\ s[Len(s)] \in Whitespace
    THEN rstrip(SubSeq(s, 1, Len(s) - 1))
    ELSE s

strip(s) == rstrip(lstrip(s))

\* The value of a non-empty string of decimal digits.
RECURSIVE DigitsToNat(_)
DigitsToNat(ds) ==
    IF ds = <<>> THEN 0
    ELSE 10 * DigitsToNat(SubSeq(ds, 1, Len(ds) - 1)) + DigitVal(ds[Len(ds)])

\* The decimal digits of a natural number.
RECURSIVE NatToDigits(_)
NatToDigits(n) ==
    IF n < 10 THEN <<DigitChars[n + 1]>>
    ELSE Append(NatToDigits(n \div 10), DigitChars[(n % 10) + 1])


\* Index of the first "." of s, 0 when it has none.
DotIndex(s) ==
    IF \E i \in 1..Len(s) : s[i] = "."
    THEN CHOOSE i \in 1..Len(s) : s[i] = "." /\ \A j \in 1..(i - 1) : s[j] # "."
    ELSE 0

AllDigits(s) == \A i \in 1..Len(s) : IsDigit(s[i])

AllZeros(s) == \A i \in 1..Len(s) : s[i] = "0"

\* float(s) of a stripped string: digits, optionally "." and digits.  The
\* model's prices are whole, so a fraction that is not zero is out of range.
float(s) ==
    LET t == strip(s)
        d == DotIndex(t)
        ip == IF d = 0 THEN t ELSE SubSeq(t, 1, d - 1)
        fp == IF d = 0 THEN <<>> ELSE SubSeq(t, d + 1, Len(t))
    IN  IF /\ Len(ip) + Len(fp) > 0
           /\ AllDigits(ip)
           /\ AllDigits(fp)
           /\ AllZeros(fp)
        THEN [err |-> "none", val |-> DigitsToNat(ip)]
        ELSE [err |-> "ValueError", val |-> 0]

\* Digits with a "," between groups of three, as format's "," option writes.
RECURSIVE Grouped(_)
Grouped(ds) ==
    IF Len(ds) <= 3 THEN ds
    ELSE Grouped(SubSeq(ds, 1, Len(ds) - 3))
         \o <<",">> \o SubSeq(ds, Len(ds) - 2, Len(ds))

\* A variant of str_float that groups the digits, as the notification does.
str_float_grouped(x) == Grouped(NatToDigits(x)) \o <<".", "0">>

\* str(x) of a float with a zero fraction: "351.0".
str_float(x) == NatToDigits(x) \o <<".", "0">>

\* '{:,.2f}'.format(x) of a float with a zero fraction: "1,000.00".
format_money(x) == Grouped(NatToDigits(x)) \o <<".", "0", "0">>

\* ------------------------------------------------------------- PriceRule

\* re.sub(r'[^\d]', '', s): every character that is not a digit removed.
sub_non_digits(s) == SelectSeq(s, IsDigit)

\* PriceRule.parse_line: the exception raised ("none": the rule is set up),
\* the operator symbol and the threshold.
parse_line(line) ==
    LET l == strip(line)
    IN  IF l = <<>>
        THEN [err |-> "IndexError", operator_symbol |-> "", threshold |-> 0]
        ELSE LET operator_symbol == l[1]
                 threshold == sub_non_digits(strip(Tail(l)))
             IN  IF operator_symbol \notin {">", "<"}
                 THEN [err |-> "ValueError", operator_symbol |-> "",
                       threshold |-> 0]
                 ELSE IF threshold = <<>>
                 THEN [err |-> "ValueError", operator_symbol |-> "",
                       threshold |-> 0]
                 ELSE [err |-> "none", operator_symbol |-> operator_symbol,
                       threshold |-> DigitsToNat(threshold)]

\* PriceRule(original_line): the rule object, or the exception of parse_line.
PriceRule(original_line) ==
    LET r == parse_line(original_line)
    IN  [err |-> r.err, original_line |-> original_line,
         operator_symbol |-> r.operator_symbol, threshold |-> r.threshold]

\* PriceRule.matches through OPERATOR_MAP: operator.gt or operator.lt.
matches(rule, value) ==
    IF rule.operator_symbol = ">"
    THEN value > rule.threshold
    ELSE value < rule.threshold

\* WORD_MAP.
WORD_MAP(operator_symbol) ==
    IF operator_symbol = ">" THEN "above" ELSE "below"

\* The JSON body PriceRule.notify posts.
notify_data(rule, xbt_price) ==
    [value1 |-> <<WORD_MAP(rule.operator_symbol), " ", "€">>
                    \o format_money(rule.threshold),
     value2 |-> <<"€">> \o format_money(xbt_price)]

\* PriceRule.delete: the config file without the lines equal to this rule's.
\* No caller in the script.
delete(rule, config_file) ==
    SelectSeq(config_file, LAMBDA line : line # rule.original_line)

\* A variant of load_price_rules that ignores the lines it cannot parse.
RECURSIVE load_price_rules_skipping(_)
load_price_rules_skipping(config_file) ==
    IF config_file = <<>> THEN [err |-> "none", rules |-> <<>>]
    ELSE LET rest == load_price_rules_skipping(Tail(config_file))
             rule == PriceRule(Head(config_file))
         IN  IF rule.err # "none" THEN rest
             ELSE [err |-> "none", rules |-> <<rule>> \o rest.rules]

\* load_price_rules: a PriceRule for each line, in order; the first line
\* that does not parse raises and no list is returned.
RECURSIVE load_price_rules(_)
load_price_rules(config_file) ==
    IF config_file = <<>> THEN [err |-> "none", rules |-> <<>>]
    ELSE LET rule == PriceRule(Head(config_file))
         IN  IF rule.err # "none" THEN [err |-> rule.err, rules |-> <<>>]
             ELSE LET rest == load_price_rules(Tail(config_file))
                  IN  IF rest.err # "none" THEN rest
                      ELSE [err |-> "none", rules |-> <<rule>> \o rest.rules]

\* ------------------------------------------------------------ price file

\* load_previous_xbt_price: the float of the file's last line.  An empty
\* file leaves `previous` unbound.
load_previous_xbt_price(price_file) ==
    IF price_file = <<>>
    THEN [err |-> "UnboundLocalError", val |-> 0]
    ELSE float(price_file)

\* open(PREVIOUS, "w+"): the file is cut to nothing.
open_w(price_file) == <<>>

\* f.truncate(0).
truncate0(price_file) == <<>>

\* f.write(text); f.close(): the buffered text goes to the file from the
\* handle's position, 0, over whatever the file holds by then.
write_close(price_file, text) ==
    text \o SubSeq(price_file, Len(text) + 1, Len(price_file))

\* A variant of safe_distance with the comparison not strict.
safe_distance_ge(price1, price2) ==
    IF price1 - price2 >= 0
    THEN price1 - price2 >= 250
    ELSE price2 - price1 >= 250

\* A variant of safe_distance that lets every price through.
safe_distance_off(price1, price2) == TRUE

\* safe_distance: abs(price1 - price2) > 250.
safe_distance(price1, price2) ==
    IF price1 - price2 >= 0
    THEN price1 - price2 > 250
    ELSE price2 - price1 > 250

\* ----------------------------------------------------------------- state

VARIABLES
    rulesFile,           \* xbt-rules.txt (CONFIG): its lines, as iterated
    previousFile,        \* xbt-previous-price.txt (PREVIOUS): its text
    posts,               \* the webhook requests IFTTT has received, in order
    pc,                  \* per process running the script: where it is
    xbt_price,           \* check_xbt's local
    xbt_previous_price,  \* check_xbt's local
    rules,               \* the list load_price_rules returned
    idx,                 \* the position of `for rule in ...`
    err,                 \* the exception that ended the run, "none" if none
    run,                 \* the number of the process's run (history)
    runs,                \* runs started so far (history)
    start,               \* both files as they were when the run began (history)
    writes               \* the writes of PREVIOUS: run, price, text found (history)

vars == <<rulesFile, previousFile, posts, pc, xbt_price, xbt_previous_price,
          rules, idx, err, run, runs, start, writes>>

locals == <<xbt_price, xbt_previous_price, rules, idx>>

Procs == DOMAIN pc

\* The lines a rules file is made of.
RuleLines ==
    { <<">", "1", "0", "0", "\n">>,
      <<"<", " ", "9", "0", "0", "\n">>,
      <<">", "1", ".", "5", "\n">>,
      <<">", "\n">>,
      <<"x", "5", "\n">>,
      <<"\n">> }

RuleFiles == UNION { [1..n -> RuleLines] : n \in 0..MaxLines }

InitFiles ==
    /\ rulesFile \in RuleFiles
    /\ previousFile \in { str_float(p) : p \in InitialPrevious }
    /\ posts = <<>>
    /\ writes = <<>>
    /\ runs = 0

InitProcs(P) ==
    /\ pc = [p \in P |-> "idle"]
    /\ xbt_price = [p \in P |-> 0]
    /\ xbt_previous_price = [p \in P |-> 0]
    /\ rules = [p \in P |-> <<>>]
    /\ idx = [p \in P |-> 0]
    /\ err = [p \in P |-> "none"]
    /\ run = [p \in P |-> 0]
    /\ start = [p \in P |-> [previous |-> previousFile, rules |-> rulesFile]]

\* The script is run by one process at a time.
Init == InitFiles /\ InitProcs({1})

\* The scheduler may start a run while another is still going.
InitOverlap == InitFiles /\ InitProcs({1, 2})

Finished(p) == pc[p] \in {"idle", "done", "aborted"}

\* An exception leaves check_xbt and ends the process.
Raise(p, e) ==
    /\ pc' = [pc EXCEPT ![p] = "aborted"]
    /\ err' = [err EXCEPT ![p] = e]

\* A process starts, with nothing left of the run before it.
Begin(p) ==
    /\ Finished(p)
    /\ runs < MaxRuns
    /\ runs' = runs + 1
    /\ run' = [run EXCEPT ![p] = runs + 1]
    /\ start' = [start EXCEPT ![p] =
                    [previous |-> previousFile, rules |-> rulesFile]]
    /\ xbt_previous_price' = [xbt_previous_price EXCEPT ![p] = 0]
    /\ rules' = [rules EXCEPT ![p] = <<>>]
    /\ idx' = [idx EXCEPT ![p] = 0]

\* check_xbt, line 229: get_xbt_price() answers with the ask price.
GetXbtPrice(p) ==
    /\ Begin(p)
    /\ \E price \in Prices : xbt_price' = [xbt_price EXCEPT ![p] = price]
    /\ pc' = [pc EXCEPT ![p] = "load_previous"]
    /\ err' = [err EXCEPT ![p] = "none"]
    /\ UNCHANGED <<rulesFile, previousFile, posts, writes>>

\* get_xbt_price() raises: the request fails or the answer lacks the keys.
GetXbtPriceFails(p) ==
    /\ Begin(p)
    /\ xbt_price' = [xbt_price EXCEPT ![p] = 0]
    /\ Raise(p, "RuntimeError")
    /\ UNCHANGED <<rulesFile, previousFile, posts, writes>>

\* check_xbt, line 230.
LoadPreviousXbtPrice(p) ==
    /\ pc[p] = "load_previous"
    /\ LET previous == load_previous_xbt_price(previousFile)
       IN  IF previous.err # "none"
           THEN /\ Raise(p, previous.err)
                /\ UNCHANGED xbt_previous_price
           ELSE /\ xbt_previous_price' =
                       [xbt_previous_price EXCEPT ![p] = previous.val]
                /\ pc' = [pc EXCEPT ![p] = "load_rules"]
                /\ UNCHANGED err
    /\ UNCHANGED <<rulesFile, previousFile, posts, xbt_price, rules, idx,
                   run, runs, start, writes>>

\* check_xbt, line 233: the list is built before the loop starts.
LoadPriceRules(p) ==
    /\ pc[p] = "load_rules"
    /\ LET loaded == load_price_rules(rulesFile)
       IN  IF loaded.err # "none"
           THEN /\ Raise(p, loaded.err)
                /\ UNCHANGED <<rules, idx>>
           ELSE /\ rules' = [rules EXCEPT ![p] = loaded.rules]
                /\ idx' = [idx EXCEPT ![p] = 1]
                /\ pc' = [pc EXCEPT ![p] = "loop"]
                /\ UNCHANGED err
    /\ UNCHANGED <<rulesFile, previousFile, posts, xbt_price,
                   xbt_previous_price, run, runs, start, writes>>

\* check_xbt, lines 233-235: the next rule, or the end of the list.
NextRule(p) ==
    /\ pc[p] = "loop"
    /\ IF idx[p] > Len(rules[p])
       THEN /\ pc' = [pc EXCEPT ![p] = "done"]
            /\ UNCHANGED idx
       ELSE IF /\ matches(rules[p][idx[p]], xbt_price[p])
               /\ safe_distance(xbt_price[p], xbt_previous_price[p])
       THEN /\ pc' = [pc EXCEPT ![p] = "save_open"]
            /\ UNCHANGED idx
       ELSE /\ idx' = [idx EXCEPT ![p] = idx[p] + 1]
            /\ UNCHANGED pc
    /\ UNCHANGED <<rulesFile, previousFile, posts, xbt_price,
                   xbt_previous_price, rules, err, run, runs, start, writes>>

\* save_xbt_price, line 216.
SaveOpen(p) ==
    /\ pc[p] = "save_open"
    /\ previousFile' = open_w(previousFile)
    /\ pc' = [pc EXCEPT ![p] = "save_truncate"]
    /\ UNCHANGED <<rulesFile, posts, locals, err, run, runs, start, writes>>

\* save_xbt_price, line 217.
SaveTruncate(p) ==
    /\ pc[p] = "save_truncate"
    /\ previousFile' = truncate0(previousFile)
    /\ pc' = [pc EXCEPT ![p] = "save_write"]
    /\ UNCHANGED <<rulesFile, posts, locals, err, run, runs, start, writes>>

\* save_xbt_price, lines 218-219, called with str(xbt_price) at line 236.
SaveWrite(p) ==
    /\ pc[p] = "save_write"
    /\ previousFile' = write_close(previousFile, str_float(xbt_price[p]))
    /\ writes' = Append(writes, [run |-> run[p], price |-> xbt_price[p],
                                 found |-> previousFile])
    /\ pc' = [pc EXCEPT ![p] = "notify"]
    /\ UNCHANGED <<rulesFile, posts, locals, err, run, runs, start>>

\* A variant of the loop's exit in which the loop goes on after a rule fired.
after_notify_continue(i, n) == i + 1

\* check_xbt, line 238: break leaves the loop, whatever rules are left.
after_notify(i, n) == n + 1

\* check_xbt, lines 237-238: rule.notify(xbt_price) posts, then break.
Notify(p) ==
    /\ pc[p] = "notify"
    /\ LET rule == rules[p][idx[p]]
           data == notify_data(rule, xbt_price[p])
       IN  posts' = Append(posts,
                [run |-> run[p], line |-> rule.original_line,
                 price |-> xbt_price[p],
                 value1 |-> data.value1, value2 |-> data.value2])
    /\ idx' = [idx EXCEPT ![p] = after_notify(idx[p], Len(rules[p]))]
    /\ pc' = [pc EXCEPT ![p] = "loop"]
    /\ UNCHANGED <<rulesFile, previousFile, xbt_price, xbt_previous_price,
                   rules, err, run, runs, start, writes>>

\* requests.post raises: the webhook is not reached.
NotifyFails(p) ==
    /\ pc[p] = "notify"
    /\ Raise(p, "ConnectionError")
    /\ UNCHANGED <<rulesFile, previousFile, posts, locals, run, runs, start,
                   writes>>

Next ==
    \/ \E p \in Procs : GetXbtPrice(p)
    \/ \E p \in Procs : GetXbtPriceFails(p)
    \/ \E p \in Procs : LoadPreviousXbtPrice(p)
    \/ \E p \in Procs : LoadPriceRules(p)
    \/ \E p \in Procs : NextRule(p)
    \/ \E p \in Procs : SaveOpen(p)
    \/ \E p \in Procs : SaveTruncate(p)
    \/ \E p \in Procs : SaveWrite(p)
    \/ \E p \in Procs : Notify(p)
    \/ \E p \in Procs : NotifyFails(p)

\* The webhook and the ticker always answer.
NextReliable ==
    \/ \E p \in Procs : GetXbtPrice(p)
    \/ \E p \in Procs : LoadPreviousXbtPrice(p)
    \/ \E p \in Procs : LoadPriceRules(p)
    \/ \E p \in Procs : NextRule(p)
    \/ \E p \in Procs : SaveOpen(p)
    \/ \E p \in Procs : SaveTruncate(p)
    \/ \E p \in Procs : SaveWrite(p)
    \/ \E p \in Procs : Notify(p)

\* Each process runs the script once.
NextOverlap ==
    \/ \E p \in Procs : pc[p] = "idle" /\ GetXbtPrice(p)
    \/ \E p \in Procs : pc[p] = "idle" /\ GetXbtPriceFails(p)
    \/ \E p \in Procs : LoadPreviousXbtPrice(p)
    \/ \E p \in Procs : LoadPriceRules(p)
    \/ \E p \in Procs : NextRule(p)
    \/ \E p \in Procs : SaveOpen(p)
    \/ \E p \in Procs : SaveTruncate(p)
    \/ \E p \in Procs : SaveWrite(p)
    \/ \E p \in Procs : Notify(p)
    \/ \E p \in Procs : NotifyFails(p)

\* Runs one after another; the network may fail.
Spec == Init /\ [][Next]_vars

\* Runs one after another, none of which fails on the network.
SpecReliable == Init /\ [][NextReliable]_vars

\* Two runs that may overlap.
SpecOverlap == InitOverlap /\ [][NextOverlap]_vars

\* ---------------------------------------------------------------- claims

\* The webhook requests of run r, and its writes of the price file.
PostsOf(r) == { k \in 1..Len(posts) : posts[k].run = r }

WritesOf(r) == { k \in 1..Len(writes) : writes[k].run = r }

Distance(a, b) == IF a >= b THEN a - b ELSE b - a

\* The rule's condition on the price, read off its operator symbol.
Fits(rule, price) ==
    \/ rule.operator_symbol = ">" /\ price > rule.threshold
    \/ rule.operator_symbol = "<" /\ price < rule.threshold

\* The process has a run behind it.
Ended(p) == run[p] > 0 /\ pc[p] \in {"done", "aborted"}

\* The process has got past load_price_rules in its run.
TriedRules(p) ==
    /\ run[p] > 0
    /\ pc[p] \notin {"idle", "load_previous", "load_rules"}
    /\ err[p] \notin {"RuntimeError", "UnboundLocalError"}

\* The first non-whitespace character is not an operator symbol.
BadStart(line) ==
    LET l == strip(line) IN l = <<>> \/ l[1] \notin {">", "<"}

\* The number part of a line: what follows the operator and the whitespace.
NumberPart(line) == lstrip(Tail(strip(line)))

IntegerDigits(body) ==
    IF DotIndex(body) = 0 THEN body ELSE SubSeq(body, 1, DotIndex(body) - 1)

FractionDigits(body) ==
    IF DotIndex(body) = 0 THEN <<>>
    ELSE SubSeq(body, DotIndex(body) + 1, Len(body))

\* The line is an operator, optional whitespace, digits and an optional
\* "." with digits.
IsDecimalLine(line) ==
    /\ ~BadStart(line)
    /\ LET body == NumberPart(line)
       IN  /\ IntegerDigits(body) # <<>>
           /\ AllDigits(IntegerDigits(body))
           /\ AllDigits(FractionDigits(body))
           /\ DotIndex(body) # 0 => FractionDigits(body) # <<>>

RECURSIVE Pow10(_)
Pow10(n) == IF n = 0 THEN 1 ELSE 10 * Pow10(n - 1)

\* x is the decimal number written on the line.
IsValueOf(x, line) ==
    LET body == NumberPart(line)
    IN  x * Pow10(Len(FractionDigits(body)))
            = DigitsToNat(IntegerDigits(body) \o FractionDigits(body))

\* The line is no rule: no operator symbol first, or no digit after it.
Malformed(line) ==
    \/ BadStart(line)
    \/ \A i \in 1..Len(NumberPart(line)) : ~IsDigit(NumberPart(line)[i])

\* C1: one-shot rules: a rule line that has fired a notification never
\* fires one again, in the same run or in a later one.
C1_OneShot ==
    \A i, j \in 1..Len(posts) : i < j => posts[i].line # posts[j].line

\* C2: a run that completes has sent a notification if and only if some
\* loaded rule fits the fetched price ('>': price > threshold, '<': price <
\* threshold) and the fetched price is strictly more than 250 away from the
\* previous price it read.
C2_FiresIff ==
    \A p \in Procs :
        pc[p] = "done" =>
            ( PostsOf(run[p]) # {}
              <=> /\ \E k \in 1..Len(rules[p]) : Fits(rules[p][k], xbt_price[p])
                  /\ Distance(xbt_price[p], xbt_previous_price[p]) > 250 )

\* C2 witness: a completed run with a fitting rule and a price exactly 250
\* from the previous one, which sent nothing.
C2_Witness ==
    \E p \in Procs :
        /\ pc[p] = "done"
        /\ \E k \in 1..Len(rules[p]) : Fits(rules[p][k], xbt_price[p])
        /\ Distance(xbt_price[p], xbt_previous_price[p]) = 250
        /\ PostsOf(run[p]) = {}

\* C3: a run that fails, at the fetch, at the rules or at the webhook call,
\* leaves the persisted previous price as it was when the run began.
C3_FailedRunKeepsPrice ==
    \A p \in Procs :
        (run[p] > 0 /\ pc[p] = "aborted") => previousFile = start[p].previous

\* C4: a run sends at most one notification, and the one it sends is for
\* the first loaded rule that fits the price.
C4_AtMostOne ==
    /\ \A r \in 1..runs : Cardinality(PostsOf(r)) <= 1
    /\ \A p \in Procs : \A k \in PostsOf(run[p]) :
           \E i \in 1..Len(rules[p]) :
               /\ Fits(rules[p][i], xbt_price[p])
               /\ \A j \in 1..(i - 1) : ~Fits(rules[p][j], xbt_price[p])
               /\ posts[k].line = rules[p][i].original_line

\* C4 witness: a completed run in which two loaded rules fit the price, a
\* safe distance from the previous one, and exactly one notification went out.
C4_Witness ==
    \E p \in Procs :
        /\ pc[p] = "done"
        /\ Cardinality({ k \in 1..Len(rules[p]) :
                            Fits(rules[p][k], xbt_price[p]) }) >= 2
        /\ Distance(xbt_price[p], xbt_previous_price[p]) > 250
        /\ Cardinality(PostsOf(run[p])) = 1

\* C5: with overlapping runs the price file holds the price of the run that
\* wrote last: whenever the latest write found the file empty and nothing
\* has cut the file since, the file reads back as that write's price,
\* whatever an earlier run wrote.
C5_LastWriterWins ==
    (writes # <<>> /\ previousFile # <<>>
        /\ writes[Len(writes)].found = <<>>)
    => load_previous_xbt_price(previousFile)
           = [err |-> "none", val |-> writes[Len(writes)].price]

\* C5 witness: two overlapping runs have both read the same previous price
\* before either wrote, both have sent a notification, for different
\* prices, and the file holds the price of the one that wrote last.
C5_Witness ==
    /\ Procs = {1, 2}
    /\ pc[1] = "done" /\ pc[2] = "done"
    /\ xbt_previous_price[1] = xbt_previous_price[2]
    /\ start[1].previous = start[2].previous
    /\ xbt_price[1] # xbt_price[2]
    /\ PostsOf(run[1]) # {} /\ PostsOf(run[2]) # {}
    /\ Len(writes) = 2
    /\ \A k \in 1..2 : writes[k].found = <<>>
    /\ previousFile = str_float(writes[2].price)

\* C6: a run that gets to parse a rules file whose first line does not
\* start, after whitespace, with '<' or '>' (an empty line included) ends
\* with ValueError and holds no rule.
C6_BadStartIsValueError ==
    \A p \in Procs :
        (TriedRules(p) /\ rulesFile # <<>> /\ BadStart(rulesFile[1]))
        => (pc[p] = "aborted" /\ err[p] = "ValueError" /\ rules[p] = <<>>)

\* C7: a run that gets to parse a rules file whose lines are all an operator,
\* optional whitespace and a decimal number loads one rule per line, with
\* the line's operator and, as threshold, the decimal number on the line.
C7_DecimalThreshold ==
    \A p \in Procs :
        (TriedRules(p) /\ \A i \in 1..Len(rulesFile) : IsDecimalLine(rulesFile[i]))
        => /\ err[p] \notin {"ValueError", "IndexError"}
           /\ Len(rules[p]) = Len(rulesFile)
           /\ \A i \in 1..Len(rules[p]) :
                  /\ rules[p][i].operator_symbol = strip(rulesFile[i])[1]
                  /\ IsValueOf(rules[p][i].threshold, rulesFile[i])

\* C8: a run writes the persisted price at most once; a run that has ended
\* without sending a notification has left the persisted price and the
\* rules file as they were, and after a run that sent one the persisted
\* price is the price that run fetched.
C8_WriteOnlyWhenNotified ==
    \A p \in Procs :
        /\ Cardinality(WritesOf(run[p])) <= 1
        /\ (Ended(p) /\ PostsOf(run[p]) = {})
               => (previousFile = start[p].previous /\ rulesFile = start[p].rules)
        /\ (Ended(p) /\ PostsOf(run[p]) # {})
               => load_previous_xbt_price(previousFile)
                      = [err |-> "none", val |-> xbt_price[p]]

\* C9: when a line of the rules file is malformed, no run sends a
\* notification or writes the persisted price, and every run that gets to
\* the rules aborts there, before any rule is evaluated.
C9_MalformedAborts ==
    (\E i \in 1..Len(rulesFile) : Malformed(rulesFile[i]))
    => /\ posts = <<>>
       /\ writes = <<>>
       /\ \A p \in Procs : previousFile = start[p].previous
       /\ \A p \in Procs :
              TriedRules(p) => (pc[p] = "aborted" /\ rules[p] = <<>>)

\* C9 witness: a run has aborted on a malformed second line although the
\* first line is a rule that fits the fetched price, which is more than 250
\* from the previous one.
C9_Witness ==
    \E p \in Procs :
        /\ pc[p] = "aborted"
        /\ err[p] \in {"ValueError", "IndexError"}
        /\ Len(rulesFile) = 2
        /\ ~Malformed(rulesFile[1])
        /\ Malformed(rulesFile[2])
        /\ Fits(PriceRule(rulesFile[1]), xbt_price[p])
        /\ Distance(xbt_price[p], xbt_previous_price[p]) > 250

\* C10: when no run fails on the network, the prices of two consecutive
\* notifications are more than 250 apart, between runs the persisted price
\* is the price of the latest notification (the initial one when none was
\* sent), and a run that fetches the price already persisted sends nothing.
C10_NotificationsApart ==
    /\ \A k \in 1..(Len(posts) - 1) :
           Distance(posts[k + 1].price, posts[k].price) > 250
    /\ (\A p \in Procs : Finished(p))
           => previousFile =
                  IF posts = <<>>
                  THEN CHOOSE f \in { str_float(q) : q \in InitialPrevious } : TRUE
                  ELSE str_float(posts[Len(posts)].price)
    /\ \A p \in Procs :
           (pc[p] = "done" /\ str_float(xbt_price[p]) = start[p].previous)
           => PostsOf(run[p]) = {}

\* C10 witness: after two notifications a third run has fetched the price
\* of the latest one again and has completed without sending anything.
C10_Witness ==
    \E p \in Procs :
        /\ pc[p] = "done"
        /\ Len(posts) = 2
        /\ run[p] > posts[2].run
        /\ xbt_price[p] = posts[2].price
        /\ \E k \in 1..Len(rules[p]) : Fits(rules[p][k], xbt_price[p])
        /\ previousFile = str_float(posts[2].price)

=============================================================================
